---- MODULE Spec2Model ----
(***************************************************************************)
(* A model of generate_manim_video (src/app.py, lines 386-760) and of its  *)
(* helper mp4_to_gif (lines 361-384): one render job, from the creation of *)
(* the working directory, through the loop that drains the engine's        *)
(* output, the resolution of the artifact and the ffmpeg fallback, to the  *)
(* cleanup in the finally block.                                           *)
(*                                                                         *)
(* Text is modelled by what the code asks of it.  A line of engine output  *)
(* is a record of the answers to the substring tests and regular           *)
(* expressions the loop applies to it; the part of a line that the path    *)
(* parser looks at is a sequence of tokens.  A progress fraction is an     *)
(* exact rational [n, d].  A file is a path <<root, ext>> whose directory, *)
(* creation time and name are fixed by the root.  The submitted source is  *)
(* a sequence of items, each a class statement in one of the written forms *)
(* the two regular expressions tell apart, or a line of other text.        *)
(***************************************************************************)
EXTENDS Integers, Sequences, FiniteSets, TLC

VARIABLES
    scope,              \* what the run may meet: "progress" | "resolve" | "prepare"
    pc,                 \* position in generate_manim_video
    format_type,        \* argument format_type ("" when missing)
    python_code,        \* argument python_code: a sequence of source items
    audio_path,         \* argument audio_path: a path, or "" for None
    quality_preset,     \* argument quality_preset
    animation_speed,    \* argument animation_speed
    fps,                \* argument fps: digits, or "" for None
    command,            \* the argument list given to Popen (<< >> before it is built)
    scene_class,        \* the extracted scene class name ("" before extraction)
    scene_py,           \* temp_dir/scene.py: [written, code]
    warnings,           \* the messages passed to logger.warning, in order
    temp_dir,           \* "None" | "exists" | "removed"
    proc,               \* engine process: "none" | "running" | "closed" | "exited"
    exitcode,           \* the engine's exit code once it has exited
    emitted,            \* every line the engine has written, in order
    pipe,               \* lines written and not yet read
    full_output,        \* the transcript kept by the loop
    la,                 \* the path look-ahead: [on, k, parts]
    total_animations, current_animation, total_frames, current_frame,
    reported,           \* the values passed to progress_bar.progress, in order
    output_file_path, mp4_output_path,
    fs,                 \* file system: path -> "absent" | "empty" | "data"
    dirs,               \* candidate PNG directories: dir -> "absent" | "nopng" | "png"
    video_data,         \* None | [from |-> path, empty |-> BOOLEAN]
    result,             \* the pair returned to the caller
    raised,             \* an exception left generate_manim_video
    log                 \* file-system and process events of this call, in order

vars == <<scope, pc, format_type, python_code, audio_path, quality_preset,
          animation_speed, fps, command, scene_class, scene_py, warnings,
          temp_dir, proc, exitcode, emitted, pipe,
          full_output, la, total_animations, current_animation, total_frames,
          current_frame, reported, output_file_path, mp4_output_path, fs, dirs,
          video_data, result, raised, log>>

-----------------------------------------------------------------------------
(* Bounds of the model *)

\* the engine writes at most this many lines in a run of the progress scope
MaxLines == 3
\* the engine writes at most this many lines in a run of the resolver scope
MaxAnnounce == 3

\* the loop reads "" at most this many times while the engine, its output
\* closed, has not yet exited
MaxSpin == 1
\* the length of the output excerpt of a failure status, in lines
ExcerptLines == 2
\* the submitted source holds at most this many items
MaxItems == 2

(* Program constants *)

\* for _ in range(5)
LookAhead == 5

NoneInt == 0 - 1
None == [none |-> TRUE]
NoPath == <<"none", "none">>

\* Python truthiness of an int-or-None
Truthy(x) == x # NoneInt /\ x # 0

Last(s) == s[Len(s)]

-----------------------------------------------------------------------------
(* Progress fractions *)

Frac(n, d) == [n |-> n, d |-> d]
Zero == Frac(0, 1)
\* a bar that stops short of full
AlmostOne == Frac(99, 100)
One == Frac(1, 1)
\* a <= b for fractions with positive denominators
FracLeq(a, b) == a.n * b.d <= b.n * a.d
\* the bare quotient
Uncapped(n, d) == Frac(n, d)
\* min(0.99, n / d), d > 0
Cap99(n, d) == IF 100 * n > 99 * d THEN Frac(99, 100) ELSE Frac(n, d)

-----------------------------------------------------------------------------
(* Lines of engine output *)

Junk == [t |-> "junk", v |-> "-"]
Quote == [t |-> "quote", v |-> "'"]
Root(r) == [t |-> "root", v |-> r]
Ext(e) == [t |-> "ext", v |-> e]

PathExts == {"mp4", "gif", "webm", "svg"}

Blank ==
    [eof |-> FALSE,
     animKw |-> FALSE, animN |-> NoneInt, animM |-> NoneInt,
     totalKw |-> FALSE, totalV |-> NoneInt,
     frameKw |-> FALSE, frameV |-> NoneInt,
     pctIn |-> FALSE, pctOk |-> FALSE, pctV |-> 0,
     ready |-> FALSE, head |-> << >>, toks |-> << >>]

\* readline() at end of stream returns ""
EofLine == [Blank EXCEPT !.eof = TRUE]
\* "Rendering animation number n out of m"
AnimLine(n, m) == [Blank EXCEPT !.animKw = TRUE, !.animN = n, !.animM = m,
                                !.toks = <<Junk>>]
\* "Render animations with total frames: t"
TotalLine(t) == [Blank EXCEPT !.totalKw = TRUE, !.totalV = t, !.toks = <<Junk>>]
\* "Rendering frame f"
FrameLine(f) == [Blank EXCEPT !.frameKw = TRUE, !.frameV = f, !.toks = <<Junk>>]
\* "... p%"
PctLine(p) == [Blank EXCEPT !.pctIn = TRUE, !.pctOk = TRUE, !.pctV = p,
                            !.toks = <<Junk>>]
\* "INFO File ready at <toks>": head is the text up to and including the marker
ReadyLine(toks) == [Blank EXCEPT !.ready = TRUE, !.head = <<Junk>>, !.toks = toks]
\* a line of text that no progress pattern matches
TextLine(toks) == [Blank EXCEPT !.toks = toks]

\* line.split("File ready at")[-1].strip()
AfterMarker(line) == line.toks
\* additional_line.strip()
Stripped(line) == line.head \o line.toks

\* s.endswith(('.mp4', '.gif', '.webm', '.svg'))
EndsWithExt(s) == Len(s) > 0 /\ Last(s).t = "ext" /\ Last(s).v \in PathExts

\* s.replace("'", "")
RECURSIVE DropQuotes(_)
DropQuotes(s) ==
    IF s = << >> THEN << >>
    ELSE IF s[1].t = "quote" THEN DropQuotes(Tail(s))
         ELSE <<s[1]>> \o DropQuotes(Tail(s))

\* re.search(r'([\'"]?)((?:/|[a-zA-Z]:\\).*?\.(?:mp4|gif|webm|svg))(\1)', s):
\* the leftmost start of an absolute path, then lazily up to the nearest
\* extension; NoPath when there is no match.  A path that swallowed other
\* text on the way names no file of the model ("garbled").
PathMatch(s) ==
    LET starts == {i \in 1..Len(s) : s[i].t = "root"
                     /\ \E j \in (i + 1)..Len(s) : s[j].t = "ext"}
    IN IF starts = {} THEN NoPath
       ELSE LET i == CHOOSE x \in starts : \A y \in starts : x <= y
                j == CHOOSE x \in (i + 1)..Len(s) :
                        /\ s[x].t = "ext"
                        /\ \A y \in (i + 1)..(x - 1) : s[y].t # "ext"
            IN IF j = i + 1 THEN <<s[i].v, s[j].v>> ELSE <<"garbled", s[j].v>>

\* potential_path = ''.join(path_parts).replace("'", "").strip(), then the search
ParsePath(parts) == PathMatch(DropQuotes(parts))

-----------------------------------------------------------------------------
(* The file system *)

\* The files of the model.  The root fixes the directory and the file name:
\*   scene  os.getcwd()/media/videos/scene/<quality>/MyScene.<ext>
\*   work   <temp_dir>/media/videos/out.<ext>
\*   conv   <temp_dir>/MyScene_converted.gif
\*   pngs   <temp_dir>/MyScene_pngs.zip
\*   stale  os.getcwd()/media/videos/scene/<another quality>/MyScene.<ext>,
\*          rendered by an earlier call and still there when this one starts
EnginePaths == {<<"scene", "mp4">>, <<"scene", "gif">>,
                <<"work", "mp4">>, <<"work", "gif">>}
ConvertedGif == <<"conv", "gif">>
PngZip == <<"pngs", "zip">>
StalePaths == {<<"stale", "mp4">>}
PartialPaths == {<<"partial", "mp4">>}
FilePaths == EnginePaths \cup {ConvertedGif, PngZip} \cup StalePaths \cup PartialPaths

Loc(p) ==
    CASE p[1] \in {"scene", "stale", "partial"} -> "cwd_videos"
      [] p[1] \in {"work", "conv", "pngs"} -> "temp_dir"
      [] OTHER -> "nowhere"

\* os.path.getctime
Ctime(p) ==
    CASE p[1] = "stale" -> 1
      [] p = <<"scene", "mp4">> -> 2
      [] p = <<"scene", "gif">> -> 3
      [] p = <<"work", "mp4">> -> 4
      [] p = <<"work", "gif">> -> 5
      [] p[1] = "partial" -> 7
      [] OTHER -> 6

\* scene_class.lower() in file.lower()
NameHasScene(p) == p[1] \in {"scene", "conv", "pngs", "stale"}
\* "partial" in file
NameHasPartial(p) == p[1] = "partial"

\* the subdirectories of media/images/<scene>/Animations, with their creation times
Dirs == {"older", "newer"}
DirCtime(d) == IF d = "older" THEN 1 ELSE 2

NoFiles == [p \in FilePaths |-> "absent"]
NoDirs == [d \in Dirs |-> "absent"]

\* os.path.exists
Exists(f, p) == p \in DOMAIN f /\ f[p] # "absent"
\* os.path.getsize(p) > 0
NonEmpty(f, p) == p \in DOMAIN f /\ f[p] = "data"
\* with open(p, 'rb') as f: video_data = f.read()
ReadFile(f, p) == [from |-> p, empty |-> f[p] = "empty"]
\* Python truthiness of video_data (None and b"" are falsy)
HasData(v) == v # None /\ ~v.empty

\* max(files, key=os.path.getctime)
Newest(S) == CHOOSE p \in S : \A q \in S : Ctime(q) <= Ctime(p)
NewestDir(S) == CHOOSE d \in S : \A e \in S : DirCtime(e) <= DirCtime(d)

\* shutil.rmtree(temp_dir)
RmTree(f) == [p \in DOMAIN f |-> IF Loc(p) = "temp_dir" THEN "absent" ELSE f[p]]

Event(op, p) == [op |-> op, path |-> p, out |-> "-"]
ConvEvent(p, outcome) == [op |-> "convert", path |-> p, out |-> outcome]

-----------------------------------------------------------------------------
(* The resolver's decisions *)

\* a fallback that does not ask which format was requested
NeedsFallbackAnyFormat(fmt, ofp, mp4p, f) ==
    /\ (ofp = NoPath \/ ~Exists(f, ofp))
    /\ mp4p # NoPath
    /\ Exists(f, mp4p)

\* format_type == "gif" and (not output_file_path or not os.path.exists(output_file_path))
\*   and mp4_output_path and os.path.exists(mp4_output_path)
NeedsFallback(fmt, ofp, mp4p, f) ==
    /\ fmt = "gif"
    /\ (ofp = NoPath \/ ~Exists(f, ofp))
    /\ mp4p # NoPath
    /\ Exists(f, mp4p)

\* the outcomes of mp4_to_gif: ffmpeg fails (or cannot be run); it exits 0 and
\* leaves a GIF, an empty file, or no file
ConvOutcomes == {"fail", "ok", "okempty", "okmissing"}

\* the file system after mp4_to_gif(src, ConvertedGif)
AfterConvert(f, outcome) ==
    CASE outcome = "ok" -> [f EXCEPT ![ConvertedGif] = "data"]
      [] outcome = "okempty" -> [f EXCEPT ![ConvertedGif] = "empty"]
      [] OTHER -> f

\* what mp4_to_gif returns: output_path, or None
mp4_to_gif(outcome) == IF outcome = "fail" THEN NoPath ELSE ConvertedGif

\* gif_path and os.path.exists(gif_path)
ConvertedOk(f, outcome) ==
    mp4_to_gif(outcome) # NoPath /\ Exists(AfterConvert(f, outcome), mp4_to_gif(outcome))

\* the directories of search_paths
SearchLocs(fmt) ==
    {"cwd_videos", "tmp_videos", "temp_dir"}
        \cup (IF fmt = "svg" THEN {"cwd_designs"} ELSE {})

\* a search that takes every file of the format, whatever its name
OutputFilesAnyName(fmt, f) ==
    {p \in DOMAIN f : /\ Exists(f, p)
                      /\ p[2] = fmt
                      /\ Loc(p) \in SearchLocs(fmt)}

\* file.endswith(f".{format_type}") and "partial" not in file, under search_paths
OutputFiles(fmt, f) ==
    {p \in DOMAIN f : /\ Exists(f, p)
                      /\ p[2] = fmt
                      /\ ~NameHasPartial(p)
                      /\ Loc(p) \in SearchLocs(fmt)}

\* a resolver that searches the directories first and falls back on the
\* self-reported path
UseReportedAfterSearch(fmt, ofp, f) ==
    fmt # "png_sequence" /\ ofp # NoPath /\ Exists(f, ofp) /\ OutputFiles(fmt, f) = {}

\* the branch of lines 634-638 is taken: not a PNG sequence, and
\* output_file_path and os.path.exists(output_file_path)
UseReported(fmt, ofp, f) == fmt # "png_sequence" /\ ofp # NoPath /\ Exists(f, ofp)

\* the walk of os.getcwd(), temp_dir and /tmp for a non-empty mp4 named after the scene
Mp4Files(f) ==
    {p \in DOMAIN f : /\ p[2] = "mp4"
                      /\ NameHasScene(p)
                      /\ NonEmpty(f, p)
                      /\ Loc(p) \in {"cwd_videos", "tmp_videos", "temp_dir"}}

\* the subdirectories found under search_dirs
PngDirs(ds) == {d \in Dirs : ds[d] # "absent"}

\* if temp_dir and os.path.exists(temp_dir) and video_data is not None
ShouldClean(td, v) == td = "exists" /\ v # None

(* The submitted source (lines 264-273 and 400-426) *)

\* A class statement named name, written in the form bases:
\*   scene      class N(Scene):           (any base list naming a *Scene class)
\*   spaced     class N (Scene):  or the base list spread over several lines
\*   nested     class N(Base(), Scene):   (a ')' comes before 'Scene')
\*   other      class N(Base):            (no 'Scene' in the base list)
\*   bare       class N:
\*   commented  # class N(Scene):         (not a statement: text of a comment)
Decl(name, bases) == [k |-> "class", name |-> name, bases |-> bases]
\* Other text: "with_sound" mentions with_sound, "import" is the line
\* 'from manim.scene.scene_file_writer import SceneFileWriter'
Text(v) == [k |-> "text", v |-> v]
ImportLine == Text("import")
\* the line '@with_sound("<audio_path>")' put before a class statement
Directive(audio) == [k |-> "directive", v |-> audio]

BaseForms == {"scene", "spaced", "nested", "other", "bare", "commented"}
\* a class in every form, a class that bears the default name, and other text
Items ==
    {Decl("Intro", b) : b \in BaseForms}
        \cup {Decl("MyScene", "scene"), Decl("MyScene", "other")}
        \cup {Text("with_sound"), ImportLine}

RECURSIVE SeqsUpTo(_, _)
SeqsUpTo(S, n) ==
    IF n = 0 THEN {<< >>}
    ELSE LET shorter == SeqsUpTo(S, n - 1)
         IN shorter \cup {Append(q, x) : q \in {r \in shorter : Len(r) = n - 1}, x \in S}

First(S) == CHOOSE i \in S : \A j \in S : i <= j

\* re.findall(r'class\s+(\w+)\s*\([^)]*Scene[^)]*\)', python_code): the text
\* 'class', a name, '(' and 'Scene' before the first ')' that follows
SceneMatch(item) == item.k = "class" /\ item.bases \in {"scene", "spaced", "commented"}
SceneMatches(code) == {i \in 1..Len(code) : SceneMatch(code[i])}

extract_scene_class_name(code) ==
    IF SceneMatches(code) # {} THEN code[First(SceneMatches(code))].name ELSE "MyScene"

\* "with_sound" in python_code
HasWithSound(code) ==
    \E i \in 1..Len(code) : code[i] = Text("with_sound") \/ code[i].k = "directive"
\* "from manim.scene.scene_file_writer import SceneFileWriter" in python_code
HasImport(code) == \E i \in 1..Len(code) : code[i] = ImportLine

\* re.search(f"class {scene_class}\\(.*?\\):", python_code): 'class', one space,
\* the name, '(' at once, and '):' further on the same line
DefMatch(item, name) ==
    item.k = "class" /\ item.name = name
        /\ item.bases \in {"scene", "nested", "other", "commented"}
DefMatches(code, name) == {i \in 1..Len(code) : DefMatch(code[i], name)}
\* scene_def_match.group(0): the text matched; a commented statement holds the
\* text of the statement itself
DefText(item) == <<item.name, IF item.bases = "commented" THEN "scene" ELSE item.bases>>

\* python_code.replace(scene_def, scene_def_with_sound)
RECURSIVE Replace(_, _, _)
Replace(code, scene_def, audio) ==
    IF code = << >> THEN << >>
    ELSE (IF Head(code).k = "class" /\ DefMatch(Head(code), scene_def[1])
              /\ DefText(Head(code)) = scene_def
          THEN <<Directive(audio), Head(code)>> ELSE <<Head(code)>>)
         \o Replace(Tail(code), scene_def, audio)

\* lines 408-421: add the import, then the directive before the scene definition
AddSound(code, name, audio) ==
    LET with_import == IF HasImport(code) THEN code ELSE <<ImportLine>> \o code
        found == DefMatches(with_import, name)
    IN IF found # {}
       THEN [code |-> Replace(with_import, DefText(with_import[First(found)]), audio),
             warned |-> FALSE]
       ELSE [code |-> with_import, warned |-> TRUE]

\* a preparation that adds the sound whenever an audio path is given
JobCodeWhenAudio(code, name, audio) ==
    IF audio # "" THEN AddSound(code, name, audio)
    ELSE [code |-> code, warned |-> FALSE]

\* lines 404-421: the text to write and whether the warning is logged
JobCode(code, name, audio) ==
    IF audio # "" /\ ~HasWithSound(code) THEN AddSound(code, name, audio)
    ELSE [code |-> code, warned |-> FALSE]

NoSceneWarning == "Could not find scene definition to add audio"

(* The engine's argument list (lines 427-468) *)

\* one argument: a bare word, or an option "k=v"
Word(w) == [k |-> w, v |-> ""]
Opt(k, v) == [k |-> k, v |-> v]

\* lines 429-435
quality_map ==
    [p \in {"480p", "720p", "1080p", "4K", "8K"} |->
        CASE p = "480p" -> "-ql"
          [] p = "720p" -> "-qm"
          [] p = "1080p" -> "-qh"
          [] p = "4K" -> "-qk"
          [] OTHER -> "-qp"]

\* a lookup that gives the low-quality flag for a key that is missing
GetOrLow(map, key, default) == IF key \in DOMAIN map THEN map[key] ELSE "-ql"
\* dict.get(key, default)
Get(map, key, default) == IF key \in DOMAIN map THEN map[key] ELSE default

\* lines 438-450: format_arg and extra_args
FormatArgs(fmt) ==
    CASE fmt = "png_sequence" -> <<Opt("--format", "png"), Word("--save_pngs")>>
      [] fmt = "svg" -> <<Opt("--format", "svg")>>
      [] OTHER -> <<Opt("--format", fmt)>>

\* lines 452-454: if fps is not None: extra_args.append(f"--fps={fps}")
FpsArgs(f) == IF f # "" THEN <<Opt("--fps", f)>> ELSE << >>

\* lines 460-468: the argument list
Command(name, preset, fmt, f) ==
    LET quality_flag == Get(quality_map, preset, "-qm")
        formatted == FormatArgs(fmt)
    IN <<Word("manim"), Word("scene.py"), Word(name), Word(quality_flag),
         Head(formatted)>> \o Tail(formatted) \o FpsArgs(f)

\* the arguments of the call
Args ==
    [python_code |-> python_code, format_type |-> format_type,
     quality_preset |-> quality_preset, animation_speed |-> animation_speed,
     audio_path |-> audio_path, fps |-> fps]

\* a preparation that hands the speed on to the engine
JobWithSpeed(args) ==
    LET name == extract_scene_class_name(args.python_code)
        job == JobCode(args.python_code, name, args.audio_path)
    IN [scene_class |-> name, code |-> job.code, warned |-> job.warned,
        command |-> Append(Command(name, args.quality_preset, args.format_type, args.fps),
                           Opt("--speed", args.animation_speed))]

\* lines 400-468: what the call derives from its arguments before it starts
\* the engine: the scene class, the text of scene.py, the argument list
Job(args) ==
    LET name == extract_scene_class_name(args.python_code)
        job == JobCode(args.python_code, name, args.audio_path)
    IN [scene_class |-> name, code |-> job.code, warned |-> job.warned,
        command |-> Command(name, args.quality_preset, args.format_type, args.fps)]

-----------------------------------------------------------------------------
(* Status texts, by their fixed part; detail is the engine output that is   *)
(* formatted into the text                                                 *)
Status(kind, text) == [kind |-> kind, text |-> text, detail |-> << >>]
Generated == Status("generated", "Animation generated successfully!")
Converted == Status("converted", "Animation converted to GIF successfully!")
\* output_str[:500]: the head of the joined output; the model counts the 500
\* characters in lines
Excerpt(out) == SubSeq(out, 1, IF Len(out) < ExcerptLines THEN Len(out) ELSE ExcerptLines)
\* a failure status that leaves the engine's output out
NoOutputBare(out) == Status("no_output", "Error: No output files were generated.")
NoOutput(out) ==
    [Status("no_output", "Error: No output files were generated.")
        EXCEPT !.detail = Excerpt(out)]
\* a handler that returns str(e) alone, which may be empty
FailedBare == Status("exception", "")
Failed == Status("exception", "Error: ")

-----------------------------------------------------------------------------
(* What a run may meet: the lines the engine may write, how many, the      *)
(* formats that may be requested and the states the file system may be in  *)
(* once the engine has exited.                                             *)

Quoted(r, e) == <<Quote, Root(r), Ext(e), Quote>>

\* among them a count past its total, two different totals of frames, a frame
\* past the total frames, and percentages above 100 and below 0
ProgressLines ==
    {AnimLine(1, 2), AnimLine(1, 0), AnimLine(3, 2),
     TotalLine(4), TotalLine(8), FrameLine(2), FrameLine(5),
     PctLine(150), PctLine(0 - 5),
     ReadyLine(Quoted("scene", "mp4"))}

\* an announcement whose path is wrapped onto the next line, the rest of that
\* path, and an announcement on one line
AnnounceLines ==
    {ReadyLine(<<Root("scene")>>), TextLine(<<Ext("mp4")>>),
     ReadyLine(Quoted("scene", "gif"))}

Snap(f, d) == [files |-> f, dirs |-> d]

\* the states of the engine's files, with no PNG directory: the files named
\* after the scene may be empty
FileStates(p) == IF p[1] = "scene" THEN {"absent", "empty", "data"} ELSE {"absent", "data"}
VideoSnaps ==
    {Snap([p \in FilePaths |-> IF p \in EnginePaths THEN e[p] ELSE "absent"], NoDirs) :
        e \in {g \in [EnginePaths -> {"absent", "empty", "data"}] :
                  \A p \in EnginePaths : g[p] \in FileStates(p)}}

\* every state of the PNG directories, with or without the engine's mp4
PngSnaps ==
    {Snap([NoFiles EXCEPT ![<<"scene", "mp4">>] = m], d) :
        m \in {"absent", "data"}, d \in [Dirs -> {"absent", "nopng", "png"}]}

\* a file named as partial left beside the engine's mp4, or alone
PartialSnaps ==
    {Snap([NoFiles EXCEPT ![<<"partial", "mp4">>] = "data", ![<<"scene", "mp4">>] = m],
          NoDirs) : m \in {"absent", "data"}}

\* the scopes: "progress" exercises the progress parser, "resolve" the
\* resolver, "prepare" the extraction of the scene class and the job file,
\* "command" the argument list of the engine, "drain" the loop that reads
\* the engine's output to its end
ScopeLines(sc) ==
    CASE sc = "progress" -> ProgressLines
      [] sc = "resolve" -> AnnounceLines
      [] OTHER -> {ReadyLine(Quoted("scene", "mp4"))}
ScopeMaxLines(sc) == IF sc = "resolve" THEN MaxAnnounce ELSE MaxLines
ScopeFormats(sc) ==
    CASE sc = "progress" -> {"mp4"}
      [] sc = "resolve" -> {"", "mp4", "gif", "webm", "png_sequence"}
      [] sc = "command" -> {"mp4", "gif", "svg", "png_sequence"}
      [] OTHER -> {"", "mp4"}
ScopeSources(sc) ==
    IF sc = "prepare" THEN SeqsUpTo(Items, MaxItems) ELSE {<<Decl("MyScene", "scene")>>}
ScopeAudio(sc) == IF sc = "prepare" THEN {"", "a.mp3"} ELSE {""}
\* the presets of the table, and one that is not in it
ScopeQuality(sc) ==
    IF sc = "command" THEN {"480p", "720p", "1080p", "4K", "8K", "360p"} ELSE {"720p"}
ScopeSpeeds(sc) == IF sc = "command" THEN {"1.0", "2.0"} ELSE {"1.0"}
ScopeFps(sc) == IF sc = "command" THEN {"", "30"} ELSE {""}
\* what earlier calls may have left behind when this one starts
ScopeLeftovers(sc) ==
    IF sc # "resolve" THEN {NoFiles}
    ELSE {NoFiles} \cup {[NoFiles EXCEPT ![p] = "data"] : p \in StalePaths}
ScopeSnaps(sc) ==
    IF sc # "resolve"
    THEN {Snap(NoFiles, NoDirs),
          Snap([NoFiles EXCEPT ![<<"scene", "mp4">>] = "data"], NoDirs)}
    ELSE VideoSnaps \cup PngSnaps \cup PartialSnaps

NoLookAhead == [on |-> FALSE, k |-> 0, parts |-> << >>]
NotWritten == [written |-> FALSE, code |-> << >>]
NoResult == [artifact |-> None, status |-> Status("none", "")]

InitIn(sc) ==
    /\ scope = sc
    /\ pc = "start"
    /\ format_type \in ScopeFormats(sc)
    /\ python_code \in ScopeSources(sc)
    /\ audio_path \in ScopeAudio(sc)
    /\ quality_preset \in ScopeQuality(sc)
    /\ animation_speed \in ScopeSpeeds(sc)
    /\ fps \in ScopeFps(sc)
    /\ command = << >>
    /\ scene_class = ""
    /\ scene_py = NotWritten
    /\ warnings = << >>
    /\ temp_dir = "None"
    /\ proc = "none"
    /\ exitcode = NoneInt
    /\ emitted = << >>
    /\ pipe = << >>
    /\ full_output = << >>
    /\ la = NoLookAhead
    /\ total_animations = NoneInt
    /\ current_animation = 0
    /\ total_frames = NoneInt
    /\ current_frame = 0
    /\ reported = << >>
    /\ output_file_path = NoPath
    /\ mp4_output_path = NoPath
    /\ fs \in ScopeLeftovers(sc)
    /\ dirs = NoDirs
    /\ video_data = None
    /\ result = NoResult
    /\ raised = FALSE
    /\ log = << >>

Init == InitIn("resolve")
InitProgress == InitIn("progress")
InitPrepare == InitIn("prepare")
InitCommand == InitIn("command")
InitDrain == InitIn("drain")

engineVars == <<proc, exitcode, emitted, pipe>>
parseVars == <<full_output, la, total_animations, current_animation, total_frames,
               current_frame, reported, output_file_path, mp4_output_path>>
fileVars == <<fs, dirs>>
argVars == <<scope, format_type, python_code, audio_path, quality_preset,
            animation_speed, fps>>
jobVars == <<argVars, scene_class, scene_py, warnings, command>>

-----------------------------------------------------------------------------
(* Lines 393-470: check the parameters, create the working directory,      *)
(* write scene.py, show the progress bar at 0.                             *)
\* a call that goes on to the engine whatever happened before
AlwaysSpawn(outcome) == "spawn"
\* where the function goes on after the checks, mkdtemp and the write
AfterPrepare(outcome) == IF outcome = "ok" THEN "spawn" ELSE "except"

Prepare ==
    /\ pc = "start"
    /\ IF python_code = << >> \/ format_type = ""
       THEN \* raise ValueError("Missing required parameters")
            /\ pc' = "except"
            /\ UNCHANGED <<temp_dir, reported, log, scene_class, scene_py, warnings,
                           command>>
       ELSE \E outcome \in {"ok", "mkdtemp_fails", "write_fails"} :
            LET job == Job(Args)
            IN /\ pc' = AfterPrepare(outcome)
               /\ CASE outcome = "mkdtemp_fails" ->
                        UNCHANGED <<temp_dir, reported, log, scene_class, scene_py,
                                    warnings, command>>
                    [] outcome = "write_fails" ->
                        /\ temp_dir' = "exists"
                        /\ scene_class' = job.scene_class
                        /\ warnings' = IF job.warned THEN Append(warnings, NoSceneWarning)
                                       ELSE warnings
                        /\ log' = log \o <<Event("mkdtemp", NoPath)>>
                        /\ UNCHANGED <<reported, scene_py, command>>
                    [] OTHER ->
                        /\ temp_dir' = "exists"
                        /\ scene_class' = job.scene_class
                        /\ warnings' = IF job.warned THEN Append(warnings, NoSceneWarning)
                                       ELSE warnings
                        /\ scene_py' = [written |-> TRUE, code |-> job.code]
                        /\ command' = job.command
                        /\ log' = log \o <<Event("mkdtemp", NoPath), Event("write", NoPath)>>
                        /\ reported' = Append(reported, Zero)
    /\ UNCHANGED <<argVars, engineVars, fileVars, video_data, result, raised,
                   full_output, la, total_animations, current_animation,
                   total_frames, current_frame, output_file_path, mp4_output_path>>

\* the keyword arguments of the Popen call
PopenKwargs == [stdout |-> "PIPE", stderr |-> "STDOUT", text |-> "True"]
\* the working directory of the child: the cwd argument, else the caller's own
ChildCwd(kwargs) == IF "cwd" \in DOMAIN kwargs THEN kwargs.cwd ELSE "os.getcwd()"
PopenEvent == [op |-> "popen", path |-> NoPath, out |-> ChildCwd(PopenKwargs)]

(* Lines 472-489: subprocess.Popen; it raises when the engine cannot be run *)
Spawn ==
    /\ pc = "spawn"
    /\ \E started \in BOOLEAN :
        IF started
        THEN /\ proc' = "running"
             /\ pc' = "loop"
             /\ log' = Append(log, PopenEvent)
        ELSE /\ pc' = "except"
             /\ UNCHANGED <<proc, log>>
    /\ UNCHANGED <<jobVars, temp_dir, exitcode, emitted, pipe, parseVars, fileVars,
                   video_data, result, raised>>

(* The engine: it writes lines, may close its output, and exits *)
EngineWrite ==
    /\ proc = "running"
    /\ Len(emitted) < ScopeMaxLines(scope)
    /\ \E line \in ScopeLines(scope) :
        /\ emitted' = Append(emitted, line)
        /\ pipe' = Append(pipe, line)
    /\ UNCHANGED <<jobVars, pc, temp_dir, proc, exitcode, parseVars, fileVars,
                   video_data, result, raised, log>>

EngineClose ==
    /\ proc = "running"
    /\ proc' = "closed"
    /\ UNCHANGED <<jobVars, pc, temp_dir, exitcode, emitted, pipe, parseVars,
                   fileVars, video_data, result, raised, log>>

EngineExit ==
    /\ proc \in {"running", "closed"}
    /\ proc' = "exited"
    /\ exitcode' \in {0, 1}
    /\ UNCHANGED <<jobVars, pc, temp_dir, emitted, pipe, parseVars, fileVars,
                   video_data, result, raised, log>>

-----------------------------------------------------------------------------
(* Lines 499-544: the if/elif chain that turns a line into progress *)

Progress(ta, ca, tf, cf, rep) == [ta |-> ta, ca |-> ca, tf |-> tf, cf |-> cf, rep |-> rep]

\* if "Rendering animation number" in line or "Processing animation" in line
OnAnimation(line, st) ==
    IF line.animN = NoneInt
    THEN st                                      \* anim_match is None
    ELSE IF line.animM = 0
         THEN \* ZeroDivisionError, caught: both counters are already assigned
              Progress(line.animM, line.animN, st.tf, st.cf, st.rep)
         ELSE Progress(line.animM, line.animN, st.tf, st.cf,
                       Append(st.rep, Frac(line.animN, line.animM)))

\* elif "Render animations with total frames:" in line and not total_animations
OnTotalFrames(line, st) ==
    IF line.totalV = NoneInt
    THEN st                                      \* int() raised, caught
    ELSE Progress(st.ta, st.ca, line.totalV, st.cf, st.rep)

\* elif "Rendering frame" in line and total_frames and not total_animations
OnFrame(line, st) ==
    IF line.frameV = NoneInt
    THEN st                                      \* frame_match is None
    ELSE Progress(st.ta, st.ca, st.tf, line.frameV,
                  Append(st.rep, Cap99(line.frameV, st.tf)))

\* elif "%" in line and not total_animations and not total_frames
OnPercent(line, st) ==
    IF ~line.pctOk
    THEN st                                      \* float() raised, caught
    ELSE Progress(st.ta, st.ca, st.tf, st.cf, Append(st.rep, Cap99(line.pctV, 100)))

ParseProgress(line, st) ==
    IF line.animKw THEN OnAnimation(line, st)
    ELSE IF line.totalKw /\ ~Truthy(st.ta) THEN OnTotalFrames(line, st)
    ELSE IF line.frameKw /\ Truthy(st.tf) /\ ~Truthy(st.ta) THEN OnFrame(line, st)
    ELSE IF line.pctIn /\ ~Truthy(st.ta) /\ ~Truthy(st.tf) THEN OnPercent(line, st)
    ELSE st

Now == Progress(total_animations, current_animation, total_frames, current_frame,
                reported)

SetProgress(st) ==
    /\ total_animations' = st.ta
    /\ current_animation' = st.ca
    /\ total_frames' = st.tf
    /\ current_frame' = st.cf
    /\ reported' = st.rep

(* Lines 491-551: one turn of the loop that read a line *)
ReadLine ==
    /\ pc = "loop"
    /\ ~la.on
    /\ pipe # << >>
    /\ LET line == Head(pipe) IN
        /\ pipe' = Tail(pipe)
        /\ full_output' = Append(full_output, line)
        /\ SetProgress(ParseProgress(line, Now))
        /\ la' = IF line.ready
                 THEN [on |-> TRUE, k |-> 0, parts |-> AfterMarker(line)]
                 ELSE la
    /\ UNCHANGED <<jobVars, pc, temp_dir, proc, exitcode, emitted, output_file_path,
                   mp4_output_path, fileVars, video_data, result, raised, log>>

(* Lines 491-497: readline() returned "" while poll() is still None *)
ReadEmpty ==
    /\ pc = "loop"
    /\ ~la.on
    /\ pipe = << >>
    /\ proc = "closed"
    /\ Cardinality({i \in 1..Len(full_output) : full_output[i].eof}) < MaxSpin
    /\ full_output' = Append(full_output, EofLine)
    /\ SetProgress(ParseProgress(EofLine, Now))
    /\ UNCHANGED <<jobVars, pc, temp_dir, engineVars, la, output_file_path,
                   mp4_output_path, fileVars, video_data, result, raised, log>>

(* A loop that ends at the first empty read, whether or not the process  *)
(* has exited                                                            *)
LoopBreakOnEmptyRead ==
    /\ pc = "loop"
    /\ ~la.on
    /\ pipe = << >>
    /\ proc \in {"closed", "exited"}
    /\ pc' = "wait"
    /\ UNCHANGED <<jobVars, temp_dir, engineVars, parseVars, fileVars, video_data,
                   result, raised, log>>

(* Lines 493-494: readline() returned "" and the process has exited *)
LoopBreak ==
    /\ pc = "loop"
    /\ ~la.on
    /\ pipe = << >>
    /\ proc = "exited"
    /\ pc' = "wait"
    /\ UNCHANGED <<jobVars, temp_dir, engineVars, parseVars, fileVars, video_data,
                   result, raised, log>>

\* lines 562-572, once the look-ahead is over
RetainPath(parts, old) ==
    LET path == ParsePath(parts) IN
    IF path = NoPath THEN old
    ELSE [ofp |-> path, mp4p |-> IF path[2] = "mp4" THEN path ELSE old.mp4p]

\* the state of the look-ahead after one more turn of "for _ in range(5)"
LookAheadTurn(parts, stop) ==
    /\ LET over == stop \/ la.k + 1 = LookAhead
           kept == RetainPath(parts, [ofp |-> output_file_path, mp4p |-> mp4_output_path])
       IN /\ la' = IF over THEN NoLookAhead
                   ELSE [on |-> TRUE, k |-> la.k + 1, parts |-> parts]
          /\ output_file_path' = IF over THEN kept.ofp ELSE output_file_path
          /\ mp4_output_path' = IF over THEN kept.mp4p ELSE mp4_output_path
          /\ log' = IF over /\ ParsePath(parts) # NoPath
                    THEN Append(log, Event("path", ParsePath(parts)))
                    ELSE log

\* a look-ahead that uses the line for the path only
DropLine(out, line) == out
\* lines 556-557: if additional_line: full_output.append(additional_line)
KeepLine(out, line) == Append(out, line)

(* Lines 553-560: the look-ahead read a line *)
LookAheadRead ==
    /\ pc = "loop"
    /\ la.on
    /\ pipe # << >>
    /\ LET line == Head(pipe) IN
        /\ pipe' = Tail(pipe)
        /\ full_output' = KeepLine(full_output, line)
        /\ LookAheadTurn(la.parts \o Stripped(line), EndsWithExt(Stripped(line)))
    /\ UNCHANGED <<jobVars, pc, temp_dir, proc, exitcode, emitted, total_animations,
                   current_animation, total_frames, current_frame, reported,
                   fileVars, video_data, result, raised>>

(* Lines 553-556: the look-ahead read "" at the end of the stream *)
LookAheadEmpty ==
    /\ pc = "loop"
    /\ la.on
    /\ pipe = << >>
    /\ proc \in {"closed", "exited"}
    /\ LookAheadTurn(la.parts, FALSE)
    /\ UNCHANGED <<jobVars, pc, temp_dir, engineVars, full_output, total_animations,
                   current_animation, total_frames, current_frame, reported,
                   fileVars, video_data, result, raised>>

(* readline() raises (the output is not valid text): the outer except takes over *)
ReadRaises ==
    /\ pc = "loop"
    /\ pipe # << >>
    /\ pipe' = Tail(pipe)
    /\ pc' = "except"
    /\ UNCHANGED <<jobVars, temp_dir, proc, exitcode, emitted, parseVars, fileVars,
                   video_data, result, raised, log>>

-----------------------------------------------------------------------------
(* Lines 576-581: process.wait(), progress 1.0, time.sleep(3).  The files  *)
(* the engine (and earlier jobs) left are first looked at after this point *)
WaitExit ==
    /\ pc = "wait"
    /\ pc' = "fallback"
    /\ reported' = Append(reported, One)
    /\ \E snap \in ScopeSnaps(scope) :
        /\ fs' = [p \in FilePaths |-> IF p \in StalePaths THEN fs[p] ELSE snap.files[p]]
        /\ dirs' = snap.dirs
    /\ log' = Append(log, Event("wait", NoPath))
    /\ UNCHANGED <<jobVars, temp_dir, engineVars, full_output, la, total_animations,
                   current_animation, total_frames, current_frame, output_file_path,
                   mp4_output_path, video_data, result, raised>>

(* Lines 583-593: the GIF fallback on the remembered mp4 path *)
GifFallback ==
    /\ pc = "fallback"
    /\ pc' = "resolve"
    /\ IF NeedsFallback(format_type, output_file_path, mp4_output_path, fs)
       THEN \E outcome \in ConvOutcomes :
            /\ fs' = AfterConvert(fs, outcome)
            /\ output_file_path' = IF ConvertedOk(fs, outcome) THEN ConvertedGif
                                   ELSE output_file_path
            /\ log' = Append(log, ConvEvent(mp4_output_path, outcome))
       ELSE UNCHANGED <<fs, output_file_path, log>>
    /\ UNCHANGED <<jobVars, temp_dir, engineVars, full_output, la, total_animations,
                   current_animation, total_frames, current_frame, reported,
                   mp4_output_path, dirs, video_data, result, raised>>

\* lines 1-25: the modules the file imports
Imported ==
    {"streamlit", "tempfile", "os", "logging", "pathlib", "PIL", "io", "numpy",
     "sys", "subprocess", "json", "pygments", "base64", "re", "shutil", "time",
     "datetime", "uuid", "platform", "contextlib", "threading", "traceback"}
\* a module name can be used: otherwise its use raises NameError
NameDefined(n) == n \in Imported

\* lines 596-633: list the newest directory and zip its PNG files
CollectPngs ==
    IF PngDirs(dirs) = {}
    THEN /\ pc' = "return"
         /\ UNCHANGED <<fs, video_data, log>>
    ELSE LET newest_dir == NewestDir(PngDirs(dirs)) IN
         IF dirs[newest_dir] # "png"
         THEN /\ pc' = "return"
              /\ log' = Append(log, Event("listdir", <<newest_dir, "dir">>))
              /\ UNCHANGED <<fs, video_data>>
         ELSE IF NameDefined("zipfile")
              THEN /\ pc' = "return"
                   /\ fs' = [fs EXCEPT ![PngZip] = "data"]
                   /\ video_data' = [from |-> PngZip, empty |-> FALSE]
                   /\ log' = log \o <<Event("listdir", <<newest_dir, "dir">>),
                                      Event("zip", PngZip), Event("read", PngZip)>>
              ELSE \* line 621: NameError, name 'zipfile' is not defined
                   /\ pc' = "except"
                   /\ log' = Append(log, Event("listdir", <<newest_dir, "dir">>))
                   /\ UNCHANGED <<fs, video_data>>

\* lines 634-638: read the self-reported file
ReadReported ==
    /\ video_data' = ReadFile(fs, output_file_path)
    /\ log' = Append(log, Event("read", output_file_path))
    /\ UNCHANGED fs

\* lines 640-689: search the candidate directories
SearchFiles ==
    LET output_files == OutputFiles(format_type, fs)
        latest_file == Newest(output_files)
    IN IF output_files = {}
       THEN UNCHANGED <<fs, video_data, log>>
       ELSE IF format_type = "gif" /\ latest_file[2] = "mp4"
            THEN \E outcome \in ConvOutcomes :
                 /\ fs' = AfterConvert(fs, outcome)
                 /\ video_data' = IF ConvertedOk(fs, outcome)
                                  THEN ReadFile(fs', ConvertedGif)
                                  ELSE ReadFile(fs, latest_file)
                 /\ log' = log \o <<Event("read", latest_file),
                                    ConvEvent(latest_file, outcome)>>
                           \o (IF ConvertedOk(fs, outcome)
                               THEN <<Event("read", ConvertedGif)>> ELSE << >>)
            ELSE /\ video_data' = ReadFile(fs, latest_file)
                 /\ log' = Append(log, Event("read", latest_file))
                 /\ UNCHANGED fs

(* Lines 595-689: resolve the artifact *)
Resolve ==
    /\ pc = "resolve"
    /\ IF format_type = "png_sequence" THEN CollectPngs
       ELSE /\ pc' = "return"
            /\ IF UseReported(format_type, output_file_path, fs) THEN ReadReported
               ELSE SearchFiles
    /\ UNCHANGED <<jobVars, temp_dir, engineVars, parseVars, dirs, result, raised>>

Returned(artifact, status) == [artifact |-> artifact, status |-> status]

(* Lines 691-737: return the data, or try the last-resort mp4 search *)
Return ==
    /\ pc = "return"
    /\ pc' = "finally"
    /\ IF HasData(video_data)
       THEN /\ result' = Returned(video_data, Generated)
            /\ UNCHANGED <<fs, video_data, log>>
       ELSE IF format_type = "gif" /\ Mp4Files(fs) # {}
            THEN \E outcome \in ConvOutcomes :
                 LET newest_mp4 == Newest(Mp4Files(fs)) IN
                 /\ fs' = AfterConvert(fs, outcome)
                 /\ IF ConvertedOk(fs, outcome)
                    THEN /\ video_data' = ReadFile(fs', ConvertedGif)
                         /\ result' = Returned(video_data', Converted)
                         /\ log' = log \o <<ConvEvent(newest_mp4, outcome),
                                            Event("read", ConvertedGif)>>
                    ELSE /\ result' = Returned(None, NoOutput(full_output))
                         /\ log' = Append(log, ConvEvent(newest_mp4, outcome))
                         /\ UNCHANGED video_data
            ELSE /\ result' = Returned(None, NoOutput(full_output))
                 /\ UNCHANGED <<fs, video_data, log>>
    /\ UNCHANGED <<jobVars, temp_dir, engineVars, parseVars, dirs, raised>>

(* Lines 739-751: every exception of the try block ends here *)
Except ==
    /\ pc = "except"
    /\ pc' = "finally"
    /\ result' = Returned(None, Failed)
    /\ UNCHANGED <<jobVars, temp_dir, engineVars, parseVars, fileVars, video_data,
                   raised, log>>

(* A cleanup placed ahead of the resolver instead of in the finally block *)
FinallyBeforeResolve ==
    /\ pc = "resolve"
    /\ temp_dir = "exists"
    /\ temp_dir' = "removed"
    /\ fs' = RmTree(fs)
    /\ log' = Append(log, Event("rmtree", NoPath))
    /\ UNCHANGED <<jobVars, pc, engineVars, parseVars, dirs, video_data, result, raised>>

\* a cleanup whose failure replaces the pair with an error
RemovalErrorSurfaces(res) == [artifact |-> None, status |-> Failed]
\* lines 759-760: the exception of shutil.rmtree is caught and logged; the
\* pair being returned stands
RemovalError(res) == res

(* Lines 753-760: the finally block *)
Finally ==
    /\ pc = "finally"
    /\ pc' = "done"
    /\ IF ShouldClean(temp_dir, video_data)
       THEN \E removed \in BOOLEAN :
            IF removed
            THEN /\ temp_dir' = "removed"
                 /\ fs' = RmTree(fs)
                 /\ log' = Append(log, Event("rmtree", NoPath))
                 /\ UNCHANGED result
            ELSE \* shutil.rmtree raised; the error is logged
                 /\ log' = Append(log, Event("rmtree_failed", NoPath))
                 /\ result' = RemovalError(result)
                 /\ UNCHANGED <<temp_dir, fs>>
       ELSE UNCHANGED <<temp_dir, fs, log, result>>
    /\ UNCHANGED <<jobVars, engineVars, parseVars, dirs, video_data, raised>>

Next ==
    \/ Prepare \/ Spawn
    \/ EngineWrite \/ EngineClose \/ EngineExit
    \/ ReadLine \/ ReadEmpty \/ LoopBreak \/ LookAheadRead \/ LookAheadEmpty
    \/ ReadRaises
    \/ WaitExit \/ GifFallback \/ Resolve \/ Return \/ Except \/ Finally

Spec == Init /\ [][Next]_vars
SpecProgress == InitProgress /\ [][Next]_vars
SpecPrepare == InitPrepare /\ [][Next]_vars
SpecCommand == InitCommand /\ [][Next]_vars

\* the steps of generate_manim_video itself: the calling thread runs until it
\* blocks in readline() on an open, empty stream, and nothing else suspends it
Call ==
    \/ Prepare \/ Spawn
    \/ ReadLine \/ ReadEmpty \/ LoopBreak \/ LookAheadRead \/ LookAheadEmpty
    \/ ReadRaises
    \/ WaitExit \/ GifFallback \/ Resolve \/ Return \/ Except \/ Finally
\* the call keeps running while it can; nothing is assumed of the engine
SpecDrain == InitDrain /\ [][Next]_vars /\ WF_vars(Call)

-----------------------------------------------------------------------------
(* Properties *)

Reads == {i \in 1..Len(log) : log[i].op = "read"}
Conversions == {i \in 1..Len(log) : log[i].op = "convert"}
Removals == {i \in 1..Len(log) : log[i].op = "rmtree"}
Parsed == {i \in 1..Len(log) : log[i].op = "path"}

\* the path the parser retained from the engine's "File ready at" output
LastParsed ==
    IF Parsed = {} THEN NoPath
    ELSE log[CHOOSE i \in Parsed : \A j \in Parsed : j <= i].path

\* the line matches the 'animation N out of M' pattern
AnimMatch(line) == line.animKw /\ line.animN # NoneInt

\* C1: within one run, the values passed to the progress bar never decrease:
\* no reported value is lower than one reported before it.
C1_ProgressNonDecreasing ==
    \A i, j \in 1..Len(reported) : i < j => FracLeq(reported[i], reported[j])

\* C2: once a line matching 'animation N out of M' has been processed (also
\* with M = 0), a later total-frames, frame-number or percentage line changes
\* neither the progress strategy in use (the recorded frame total and current
\* frame) nor what has been reported.
C2_AnimationCountSuppresses ==
    [][(/\ pc = "loop" /\ ~la.on /\ pipe # << >>
        /\ total_animations # NoneInt
        /\ ~AnimMatch(Head(pipe))
        /\ full_output' = Append(full_output, Head(pipe)))
       => (/\ reported' = reported
           /\ total_frames' = total_frames
           /\ current_frame' = current_frame)]_vars

\* C3: once generate_manim_video has returned, the working directory it
\* created no longer exists, whatever the exit path.
C3_WorkspaceRemoved == pc = "done" => temp_dir # "exists"

\* C4: the working directory is removed only after every read of artifact
\* bytes: no read (of the self-reported file, the PNG archive, a searched file
\* or the converted GIF) follows the removal.
C4_ReadsBeforeRemoval ==
    \A i \in Removals : \A j \in Reads : j < i

\* C4 witness: a file under the working directory was read, and the directory
\* was removed afterwards
C4_Witness ==
    /\ pc = "done"
    /\ temp_dir = "removed"
    /\ \E j \in Reads : Loc(log[j].path) = "temp_dir" /\ \E i \in Removals : j < i

\* C5: every call ends by returning a pair (artifact or None, status); no
\* exception of the try block leaves the function; a None artifact comes with
\* a non-empty status.
C5_AlwaysAPair ==
    /\ ~raised
    /\ pc = "done" =>
        /\ result.status.kind # "none"
        /\ result.artifact = None => result.status.text # ""

\* C5 witness: a call that met an exception has returned (None, status)
C5_Witness ==
    /\ pc = "done"
    /\ result.artifact = None
    /\ result.status.kind = "exception"
    /\ proc # "none"

\* the files of the requested extension that the search would consider
Searchable(fmt, f) == {p \in OutputFiles(fmt, f) : NonEmpty(f, p)}

ValidArtifacts ==
    {p \in EnginePaths : /\ NonEmpty(fs, p)
                         /\ p[2] = format_type
                         /\ (p = LastParsed \/ Loc(p) \in SearchLocs(format_type))}

\* C7: whatever the engine's exit code, if a valid non-empty artifact of the
\* requested extension exists at the self-reported path or in a candidate
\* directory, the call returns such an artifact's bytes, not None.
C7_ArtifactWhateverExitCode ==
    (pc = "finally" /\ exitcode \in {0, 1} /\ ValidArtifacts # {})
        => (result.artifact # None /\ result.artifact.from \in ValidArtifacts)

\* the mp4 files a gif job can fall back on
Mp4Produced ==
    {p \in EnginePaths : /\ p[2] = "mp4"
                         /\ NonEmpty(fs, p)
                         /\ (p = mp4_output_path \/ p \in Mp4Files(fs))}

\* C8: for a gif request, when the engine left an mp4 (self-reported or found
\* by search) and no gif, and no ffmpeg run failed, the converter was run and
\* the artifact returned is the converter's GIF, not the mp4.
C8_GifIsConverted ==
    (/\ pc = "finally"
     /\ format_type = "gif"
     /\ Mp4Produced # {}
     /\ \A p \in EnginePaths : p[2] = "gif" => ~Exists(fs, p)
     /\ \A i \in Conversions : log[i].out = "ok")
        => (Conversions # {} /\ result.artifact = [from |-> ConvertedGif, empty |-> FALSE])

\* C9: a non-null artifact is of the requested format: its file has the
\* requested extension, or it is the converter's GIF for a gif request, or the
\* PNG archive for a png_sequence request.
C9_ArtifactOfRequestedFormat ==
    (pc = "finally" /\ result.artifact # None)
        => \/ result.artifact.from[2] = format_type
           \/ format_type = "gif" /\ result.artifact.from = ConvertedGif
           \/ format_type = "png_sequence" /\ result.artifact.from = PngZip

\* C10: when mp4_to_gif was run and failed and no artifact is returned, the
\* status names the conversion and differs from the status returned when the
\* engine produced no output at all.
C10_ConversionFailureIsNamed ==
    (/\ pc = "finally"
     /\ result.artifact = None
     /\ \E i \in Conversions : log[i].out = "fail")
        => (result.status # NoOutput(full_output) /\ result.status.kind = "conversion_failed")

\* C11: whenever the artifact returned is the GIF the fallback converter
\* wrote, the status returned with it says that a conversion took place.
C11_ConvertedStatusSaysSo ==
    (pc \in {"finally", "done"} /\ result.artifact # None
        /\ result.artifact.from = ConvertedGif)
    => result.status.kind = "converted"

\* the engine was waited for: the output loop ended without an exception
Waited == \E i \in 1..Len(log) : log[i].op = "wait"

\* no step of the resolver has anything to find: no self-reported file, no
\* file of the requested extension in a searched directory, no PNG directory
\* holding PNG files
NothingDiscoverable ==
    IF format_type = "png_sequence"
    THEN \A d \in Dirs : dirs[d] # "png"
    ELSE ~Exists(fs, output_file_path) /\ OutputFiles(format_type, fs) = {}

\* C12: when the engine ran, nothing is discoverable by any step and the
\* requested format is not gif, the call is about to return (the resolver is
\* through, the cleanup not yet run) no artifact and the failure status that
\* carries the excerpt of the captured output.
C12_NoArtifactStatusHasExcerpt ==
    (pc = "finally" /\ Waited /\ format_type # "gif" /\ NothingDiscoverable)
    => /\ result.artifact = None
       /\ result.status.kind = "no_output"
       /\ result.status.detail = Excerpt(full_output)

\* such a call, with engine output to excerpt
C12_Witness ==
    /\ pc = "finally" /\ Waited /\ format_type = "webm" /\ NothingDiscoverable
    /\ Len(full_output) > ExcerptLines
    /\ result.status.detail = Excerpt(full_output)

\* C13: once the output loop has ended without an exception, the step that
\* follows reports 1.0 with the engine exited, and nothing is reported after
\* it: the last value reported is exactly 1.0, reported after the exit.
C13_LastProgressIsOneAfterExit ==
    [][/\ pc = "wait" =>
            /\ proc = "exited"
            /\ Len(reported') = Len(reported) + 1
            /\ Last(reported').n = Last(reported').d
       /\ Waited => reported' = reported]_vars

\* a finished run whose bar stood at one half before the engine exited
C13_Witness ==
    /\ pc = "done" /\ Waited /\ proc = "exited"
    /\ Len(reported) >= 3
    /\ reported[Len(reported) - 1] = Frac(1, 2)
    /\ Last(reported) = One

\* C14: the bytes a call returns come from a file its own engine or converter
\* run produced, never from a file an earlier call left behind.
C14_NoStaleArtifact ==
    (pc \in {"finally", "done"} /\ result.artifact # None)
    => result.artifact.from \notin StalePaths

Spawns == {i \in 1..Len(log) : log[i].op = "popen"}

\* C15: the engine's child process is always started with the working
\* directory of the call, temp_dir, as its current directory.
C15_ChildRunsInWorkspace == \A i \in Spawns : log[i].out = "temp_dir"

\* a class statement whose base list names a Scene class
IsSceneDecl(item) == item.k = "class" /\ item.bases \in {"scene", "spaced", "nested"}
SceneDecls(code) == {i \in 1..Len(code) : IsSceneDecl(code[i])}

\* C16: the extractor returns the name of the first class statement, in the
\* order of the text, whose base list contains 'Scene', and 'MyScene' when
\* the text holds no such statement.
C16_FirstSceneDeclaration ==
    scene_class # ""
    => scene_class = (IF SceneDecls(python_code) # {}
                      THEN python_code[First(SceneDecls(python_code))].name
                      ELSE "MyScene")

HasDirective(code) == \E i \in 1..Len(code) : code[i].k = "directive"

\* C18: when the source holds no scene declaration (no text the extractor
\* takes for one, and no mention of with_sound) and an audio path is given,
\* the name used is 'MyScene', the
\* job file written holds no with_sound directive, the warning is logged, and
\* the call goes on to launch the engine.
C18_NoSceneNoDirective ==
    (/\ SceneDecls(python_code) = {} /\ SceneMatches(python_code) = {}
     /\ ~HasWithSound(python_code)
     /\ audio_path # "" /\ scene_py.written)
    => /\ scene_class = "MyScene"
       /\ ~HasDirective(scene_py.code)
       /\ \E i \in 1..Len(warnings) : warnings[i] = NoSceneWarning
       /\ pc # "start"

\* the call is past its preparation and scene.py was not written: a parameter
\* was missing, or mkdtemp or the write raised
PrepareFailed == pc # "start" /\ ~scene_py.written

\* C19: when a required parameter is missing or the creation of the working
\* directory or the write of the job file fails, the engine is never launched
\* in that call, no exception leaves it, and it returns no artifact and an
\* error status that is not empty.
C19_SetupFailureAborts ==
    PrepareFailed
    => /\ Spawns = {} /\ proc = "none"
       /\ ~raised
       /\ pc \in {"finally", "done"}
            => /\ result.artifact = None
               /\ result.status.kind = "exception"
               /\ result.status.text # ""

\* a call whose write of scene.py failed after mkdtemp succeeded
C19_Witness ==
    /\ pc = "done" /\ PrepareFailed /\ temp_dir = "exists"
    /\ python_code # << >> /\ format_type # ""
    /\ result.artifact = None /\ result.status.text # ""

RemovalFailures == {i \in 1..Len(log) : log[i].op = "rmtree_failed"}

\* C20: the finally block, whether the removal of the working directory
\* succeeds or fails, leaves the pair being returned as it was, and no
\* exception of the removal leaves the call.
C20_RemovalFailureChangesNothing ==
    [][pc = "finally" => (result' = result /\ ~raised')]_vars

\* a call that returned an artifact and whose rmtree failed
C20_Witness ==
    /\ pc = "done" /\ RemovalFailures # {} /\ temp_dir = "exists"
    /\ result.artifact # None /\ result.status = Generated
    /\ ~raised

\* the events a step adds to the log
NewEvents == {log'[i] : i \in (Len(log) + 1)..Len(log')}

\* C21: every invocation of mp4_to_gif is made with gif as the requested
\* format, with no artifact data resolved so far, and on an mp4 file that
\* exists at that moment; for any other format the converter is never run.
C21_ConverterPreconditions ==
    [][\A e \in NewEvents :
          e.op = "convert"
          => /\ format_type = "gif"
             /\ ~HasData(video_data)
             /\ e.path[2] = "mp4"
             /\ Exists(fs, e.path)]_vars

\* a gif call that ran the converter once after the exit and once more in
\* the last-resort search
C21_Witness ==
    /\ pc = "done" /\ format_type = "gif"
    /\ Cardinality(Conversions) = 2
    /\ \A i \in Conversions : Exists(fs, log[i].path)

Before(op1, i) == \E j \in 1..(i - 1) : log[j].op = op1

Announced(line) == IF line.ready THEN ParsePath(AfterMarker(line)) ELSE NoPath
Announcements == {i \in 1..Len(emitted) : Announced(emitted[i]) # NoPath}
LastAnnounced ==
    IF Announcements = {} THEN NoPath
    ELSE Announced(emitted[CHOOSE i \in Announcements : \A j \in Announcements : j <= i])

\* C23: once the engine has exited and the loop is over, the retained
\* self-reported path is the path of the last 'File ready at' line of the
\* output that carried a path, however close the announcements were.
C23_LastAnnouncementRetained ==
    (Waited /\ pc = "fallback" /\ Announcements # {})
    => output_file_path = LastAnnounced

\* a step of the loop that takes the next line of the engine's output
TakesLine == pc = "loop" /\ pc' = "loop" /\ pipe # << >> /\ pipe' = Tail(pipe)

\* C24: every line read from the engine, the lines read while a path is being
\* assembled included, goes through the progress patterns: the values
\* reported after the line are those the patterns give for it.
C24_EveryLineParsed ==
    [][TakesLine => reported' = ParseProgress(Head(pipe), Now).rep]_vars

NotEof(line) == ~line.eof
\* the transcript as text: the "" entries appended while the engine, its
\* output closed, had not yet exited add nothing to it
Transcript == SelectSeq(full_output, NotEof)

\* C25: when the output loop has ended, the transcript holds every line the
\* engine wrote, each once and in the order written, the lines read by the
\* path look-ahead and the lines written just before the exit included.
C25_TranscriptComplete == (pc = "wait" \/ Waited) => Transcript = emitted

\* the loop ended on an output whose second line was read by the look-ahead
C25_Witness ==
    /\ pc = "wait"
    /\ Len(emitted) = MaxLines
    /\ emitted[1].ready /\ emitted[2].animKw
    /\ Transcript = emitted

\* C26: a value reported for a frame-number line or a bare-percentage line,
\* which happens only while the output is being read, is never above 0.99.
C26_FrameAndPercentCapped ==
    [][(/\ TakesLine
        /\ ~Head(pipe).animKw
        /\ Head(pipe).frameKw \/ Head(pipe).pctIn
        /\ Len(reported') > Len(reported))
       => FracLeq(Last(reported'), Frac(99, 100))]_vars

\* the engine still runs, frame 5 of 4 was read and 0.99 reported for it
C26_Witness ==
    /\ pc = "loop" /\ proc = "running"
    /\ total_frames = 4 /\ current_frame = 5
    /\ Last(reported) = Frac(99, 100)

\* C27: every value passed to the progress bar during a run lies in [0, 1].
C27_ProgressInUnitInterval ==
    \A i \in 1..Len(reported) :
        FracLeq(Zero, reported[i]) /\ FracLeq(reported[i], One)

\* the non-empty files of the requested extension that this call's engine
\* left in a searched directory
FoundBySearch == Searchable(format_type, fs) \cap EnginePaths

\* C28: when the self-reported file exists and is empty, the resolver goes on
\* to the directory search and returns a non-empty file of the requested
\* extension found there, if there is one.
C28_EmptyReportedFileIsSkipped ==
    (/\ pc = "finally"
     /\ format_type # "png_sequence"
     /\ Exists(fs, output_file_path) /\ ~NonEmpty(fs, output_file_path)
     /\ FoundBySearch # {})
    => /\ result.artifact # None
       /\ result.artifact.from \in FoundBySearch

\* the directories listed for packaging, and those that hold PNG files
Listed == {log[i].path[1] : i \in {j \in 1..Len(log) : log[j].op = "listdir"}}
WithPngs == {d \in Dirs : dirs[d] = "png"}

\* C29: the directory chosen for packaging is the most recently created of
\* the candidate directories that hold at least one .png file.
C29_NewestDirWithPngs ==
    (Listed # {} /\ WithPngs # {}) => Listed = {NewestDir(WithPngs)}

\* C30: when the directory chosen for an image-sequence request holds .png
\* files, the call returns an artifact, the archive of those files.
C30_PngArchiveReturned ==
    (/\ pc \in {"finally", "done"}
     /\ format_type = "png_sequence"
     /\ Listed \cap WithPngs # {})
    => /\ result.artifact # None
       /\ result.artifact.from = PngZip

-----------------------------------------------------------------------------
\* a file the directory search may take: it is there, in a candidate
\* directory, of the requested format, and not named as partial
Eligible(p) ==
    /\ fs[p] # "absent"
    /\ p[2] = format_type
    /\ p[1] # "partial"
    /\ Loc(p) \in SearchLocs(format_type)

\* the resolver goes to the directory search and reads a file
SearchReads ==
    /\ pc = "resolve"
    /\ pc' = "return"
    /\ format_type # "png_sequence"
    /\ ~UseReported(format_type, output_file_path, fs)
    /\ Len(log') > Len(log)

\* C31: the file the directory search selects has the requested format's
\* extension, is not named as partial, and no other eligible file of the
\* candidate directories was created strictly later
C31_SearchSelectsNewestEligible ==
    [][SearchReads =>
        LET sel == log'[Len(log) + 1] IN
        /\ sel.op = "read"
        /\ video_data'.from = sel.path
        /\ sel.path[2] = format_type
        /\ sel.path[1] # "partial"
        /\ \A q \in FilePaths : Eligible(q) => Ctime(q) <= Ctime(sel.path)]_vars

\* the search took the engine's mp4 although a newer file named as partial
\* and an older mp4 of an earlier job lay in the candidate directories
C31_Witness ==
    /\ pc = "return"
    /\ format_type = "mp4"
    /\ output_file_path = NoPath
    /\ fs[<<"partial", "mp4">>] = "data"
    /\ fs[<<"stale", "mp4">>] = "data"
    /\ video_data # None
    /\ video_data.from = <<"scene", "mp4">>

-----------------------------------------------------------------------------
\* C32: the total frame count is recorded at most once per run: once a total
\* has been recorded, a later total-frames announcement does not change it
C32_TotalFramesRecordedOnce ==
    [][total_frames # NoneInt => total_frames' = total_frames]_vars

-----------------------------------------------------------------------------
\* C33: when a job fails with no artifact, the excerpt of the failure status
\* is the tail of the captured transcript: whatever the transcript's length,
\* it contains the most recent line of engine output
C33_ExcerptIsTail ==
    (result.status.kind = "no_output" /\ Transcript # << >>)
    => \E i \in 1..Len(result.status.detail) :
           result.status.detail[i] = Last(Transcript)

-----------------------------------------------------------------------------
\* C34: the quality flag passed to the engine is the table entry of the
\* preset (480p -ql, 720p -qm, 1080p -qh, 4K -qk, 8K -qp), and -qm for every
\* preset that is not in the table
C34_QualityFlag ==
    Spawns # {} =>
        command[4] = Word(CASE quality_preset = "480p" -> "-ql"
                            [] quality_preset = "720p" -> "-qm"
                            [] quality_preset = "1080p" -> "-qh"
                            [] quality_preset = "4K" -> "-qk"
                            [] quality_preset = "8K" -> "-qp"
                            [] OTHER -> "-qm")

\* the engine was started for a preset that is not in the table
C34_Witness ==
    /\ Spawns # {}
    /\ quality_preset = "360p"
    /\ command[4] = Word("-qm")

-----------------------------------------------------------------------------
\* C35: when no audio path is supplied, or the submitted source already
\* holds a reference to with_sound, the text written to the job file is the
\* submitted source text, unchanged
C35_JobFileUnchanged ==
    (scene_py.written /\ (audio_path = "" \/ HasWithSound(python_code)))
    => scene_py.code = python_code

\* a job file written for a source that names with_sound, with an audio path
C35_Witness ==
    /\ scene_py.written
    /\ audio_path # ""
    /\ HasWithSound(python_code)
    /\ SceneMatches(python_code) # {}
    /\ scene_py.code = python_code

-----------------------------------------------------------------------------
\* the loop ends by its break
LoopEnds == pc = "loop" /\ pc' = "wait"

\* C36: if the engine eventually closes its output and exits, the loop that
\* drains the output ends and generate_manim_video returns; and the loop does
\* not end before the stream is exhausted and the process has exited
C36_LoopTerminates ==
    /\ [][LoopEnds => (pipe = << >> /\ proc = "exited")]_vars
    /\ (<>(proc = "exited")) => <>(pc = "done")

\* a call that returned after its loop had read "" from the closed stream of
\* an engine still running, and ended once the engine had exited
C36_Witness ==
    /\ pc = "done"
    /\ proc = "exited"
    /\ Waited
    /\ \E i \in 1..Len(full_output) : full_output[i].eof
    /\ Transcript = emitted

-----------------------------------------------------------------------------
\* the values of ANIMATION_SPEEDS
Speeds == {"0.5", "1.0", "2.0", "3.0"}

\* the arguments of the call, with another animation_speed
ArgsAtSpeed(s) == [Args EXCEPT !.animation_speed = s]

====
